---- MODULE Spec2Model ----
(***************************************************************************)
(* Barista Buddy: the text core of the voice assistant.                    *)
(*                                                                         *)
(*   FuzzyMatcher.correct_text      pronunciation correction               *)
(*   TopicFilter.is_coffee_related  admission by keyword substring         *)
(*   RetrievalSystem                knowledge mapping and closest match    *)
(*   BaristaBuddy.process_query     normalize, admit, retrieve, fall back  *)
(*   BaristaBuddy.run               the listen / answer loop of a session  *)
(*                                                                         *)
(* A Python str is a sequence of one-character strings; dict and list are  *)
(* sequences in insertion order.  Answers, the refusal message and the     *)
(* replies of the language model are opaque strings.                       *)
(***************************************************************************)
EXTENDS Integers, Sequences, FiniteSets, TLC

\* ------------------------------------------------------------------ bounds
MaxLen == 3
MaxEntries == 2
MaxKeywords == 2
MaxPron == 2
MaxTopK == 3
MaxTurns == 3

\* ------------------------------------------------------- characters, str
Lowers == {"a", "b"}
Chars == Lowers \cup {"A"}

\* code points: "A" < "a" < "b", the order Python compares characters by
Ord == [c \in Chars \cup {"B"} |-> CASE c = "A" -> 65 [] c = "B" -> 66 [] c = "a" -> 97 [] c = "b" -> 98]

\* the further characters of what a session hears
Space == " "
Letters == {"e", "x", "i", "t", "q", "u", "g", "o", "d", "y"}

LowerChar == [c \in Chars \cup {"B", "E", Space} \cup Letters |->
                 CASE c = "A" -> "a" [] c = "B" -> "b" [] c = "E" -> "e" [] OTHER -> c]

\* str.lower()
Lower(s) == [i \in 1..Len(s) |-> LowerChar[s[i]]]

\* every str over alphabet S of length at most n
StrsUpTo(S, n) == UNION {[1..k -> S] : k \in 0..n}

\* whether s[i+1 .. i+Len(p)] is p (0-based offset i)
StartsAt(s, p, i) == i + Len(p) <= Len(s) /\ \A k \in 1..Len(p) : s[i + k] = p[k]

\* `kw in text`: left-to-right search for the first offset where kw starts
RECURSIVE FindFrom(_, _, _)
FindFrom(text, kw, i) ==
    IF i + Len(kw) > Len(text) THEN -1
    ELSE IF StartsAt(text, kw, i) THEN i
    ELSE FindFrom(text, kw, i + 1)

Contains(text, kw) == FindFrom(text, kw, 0) >= 0

\* str.replace(old, new): every non-overlapping occurrence, left to right;
\* an empty `old` matches before every character and at the end
RECURSIVE ReplaceFrom(_, _, _, _)
ReplaceFrom(text, old, new, i) ==
    IF old = <<>> THEN
        IF i >= Len(text) THEN new
        ELSE new \o <<text[i + 1]>> \o ReplaceFrom(text, old, new, i + 1)
    ELSE IF i >= Len(text) THEN <<>>
    ELSE IF StartsAt(text, old, i) THEN new \o ReplaceFrom(text, old, new, i + Len(old))
    ELSE <<text[i + 1]>> \o ReplaceFrom(text, old, new, i + 1)

Replace(text, old, new) == ReplaceFrom(text, old, new, 0)

\* str < str
RECURSIVE StrLess(_, _)
StrLess(s, t) ==
    IF t = <<>> THEN FALSE
    ELSE IF s = <<>> THEN TRUE
    ELSE IF s[1] # t[1] THEN Ord[s[1]] < Ord[t[1]]
    ELSE StrLess(Tail(s), Tail(t))

\* ------------------------------------------------- difflib.SequenceMatcher
\* No element is junk: isjunk is None, and the autojunk heuristic only acts
\* on a second sequence of 200 or more elements.  Offsets are 0-based and
\* windows half-open, as in difflib.

\* j2len[j] while the outer loop is at i: the length of the common run that
\* ends at a[i], b[j] and lies inside the window starting at alo, blo
RECURSIVE RunEndingAt(_, _, _, _, _, _)
RunEndingAt(a, b, i, j, alo, blo) ==
    IF i < alo \/ j < blo THEN 0
    ELSE IF a[i + 1] # b[j + 1] THEN 0
    ELSE 1 + RunEndingAt(a, b, i - 1, j - 1, alo, blo)

\* the two loops of find_longest_match from (i, j) on, i ascending and then
\* j ascending: a longer run replaces <<besti, bestj, bestsize>>
RECURSIVE LongestFrom(_, _, _, _, _, _, _, _, _)
LongestFrom(a, b, alo, ahi, blo, bhi, i, j, best) ==
    IF i >= ahi THEN best
    ELSE IF j >= bhi THEN LongestFrom(a, b, alo, ahi, blo, bhi, i + 1, blo, best)
    ELSE LET k == RunEndingAt(a, b, i, j, alo, blo)
         IN  LongestFrom(a, b, alo, ahi, blo, bhi, i, j + 1,
                         IF k > best[3] THEN <<i - k + 1, j - k + 1, k>> ELSE best)

\* find_longest_match(alo, ahi, blo, bhi) -> <<i, j, k>>: the longest block;
\* of those the earliest in a, and of those the earliest in b
find_longest_match(a, b, alo, ahi, blo, bhi) ==
    LongestFrom(a, b, alo, ahi, blo, bhi, alo, blo, <<alo, blo, 0>>)

\* get_matching_blocks, summed: the block sizes found in the window, the
\* longest block first and then the windows to its left and to its right
RECURSIVE MatchedIn(_, _, _, _, _, _)
MatchedIn(a, b, alo, ahi, blo, bhi) ==
    LET m == find_longest_match(a, b, alo, ahi, blo, bhi)
        i == m[1]
        j == m[2]
        k == m[3]
    IN  IF k = 0 THEN 0
        ELSE k
             + (IF alo < i /\ blo < j THEN MatchedIn(a, b, alo, i, blo, j) ELSE 0)
             + (IF i + k < ahi /\ j + k < bhi THEN MatchedIn(a, b, i + k, ahi, j + k, bhi) ELSE 0)

\* _calculate_ratio(matches, length) as the fraction <<numerator, denominator>>;
\* 1.0 when both sequences are empty
calculate_ratio(matches, length) == IF length > 0 THEN <<2 * matches, length>> ELSE <<1, 1>>

\* SequenceMatcher(None, a, b).ratio()
ratio(a, b) == calculate_ratio(MatchedIn(a, b, 0, Len(a), 0, Len(b)), Len(a) + Len(b))

Count(s, c) == Cardinality({i \in 1..Len(s) : s[i] = c})

Min(x, y) == IF x <= y THEN x ELSE y

RECURSIVE SumOver(_, _)
SumOver(S, f) ==
    IF S = {} THEN 0
    ELSE LET c == CHOOSE x \in S : TRUE IN f[c] + SumOver(S \ {c}, f)

\* quick_ratio(): the elements of a that are still available in b's multiset
quick_ratio(a, b) ==
    LET E == {a[i] : i \in 1..Len(a)}
    IN  calculate_ratio(SumOver(E, [c \in E |-> Min(Count(a, c), Count(b, c))]), Len(a) + Len(b))

\* real_quick_ratio(): from the two lengths alone
real_quick_ratio(a, b) == calculate_ratio(Min(Len(a), Len(b)), Len(a) + Len(b))

\* float comparisons of two fractions (denominators are positive)
ScoreGE(r, s) == r[1] * s[2] >= s[1] * r[2]
ScoreGT(r, s) == r[1] * s[2] > s[1] * r[2]
ScoreEQ(r, s) == r[1] * s[2] = s[1] * r[2]

\* ------------------------------------------------------------------ state
VARIABLES
    pronunciation_dict, \* FuzzyMatcher.pronunciation_dict: items <<key, value>> in dict order
    keywords,           \* TopicFilter.keywords
    knowledge_list,     \* the list RetrievalSystem was constructed from
    knowledge_dict,     \* RetrievalSystem.knowledge_dict: items in insertion order
    inputs,             \* per session: the texts it has yet to pass
    pc,                 \* per session: the stage of its process_query call
    query,              \* per session: the local `query` of process_query
    results,            \* per session: the local `results` of process_query
    answer,             \* per session: the value process_query returned, or None
    trace,              \* per session: the stages of the current call, in order
    retrieveLog,        \* per session: the arguments of its retrieve() invocations
    llmLog,             \* per session: its LLMHandler.query invocations
    call,               \* per session: its last direct component call
    run_pc,             \* the position of BaristaBuddy.run
    run_query,          \* the local `query` of run: what listen() returned
    events              \* what run has heard, called and spoken, in order

data == <<pronunciation_dict, keywords, knowledge_list, knowledge_dict>>
locals == <<pc, query, results, answer, trace, retrieveLog, llmLog>>
session == <<run_pc, run_query, events>>
vars == <<data, inputs, locals, call, session>>

None == "None"

\* -------------------------------------------------------- FuzzyMatcher
\* A value of the pronunciation table is a list of str (kind "list"), a str
\* (kind "str", items = <<the str>>) or anything else (kind "other").
RECURSIVE CorrectFrom(_, _, _)
CorrectFrom(text, d, n) ==
    IF n > Len(d) THEN text
    ELSE LET wrong == d[n][1]
             value == d[n][2]
         IN  IF value.kind \in {"list", "str"}
             THEN CorrectFrom(Replace(text, Lower(wrong), Lower(value.items[1])), d, n + 1)
             ELSE CorrectFrom(text, d, n + 1)

correct_text(text) == CorrectFrom(Lower(text), pronunciation_dict, 1)

\* -------------------------------------------------------- TopicFilter
\* is_coffee_related, were the text not lower-cased
is_coffee_related_cased(text) == \E n \in 1..Len(keywords) : Contains(text, keywords[n])

\* is_coffee_related, were it all() instead of any()
is_coffee_related_all(text) == \A n \in 1..Len(keywords) : Contains(Lower(text), keywords[n])

is_coffee_related(text) == \E n \in 1..Len(keywords) : Contains(Lower(text), keywords[n])

\* ---------------------------------------------------- RetrievalSystem
cutoff == <<1, 2>>
DefaultTopK == 3

HasKey(d, k) == \E n \in 1..Len(d) : d[n].question = k

\* d[k], for a key of d
DictGet(d, k) == d[CHOOSE n \in 1..Len(d) : d[n].question = k].answer

\* DictSet, were a present key to keep its value (setdefault)
DictSetDefault(d, k, v) ==
    IF HasKey(d, k) THEN d ELSE Append(d, [question |-> k, answer |-> v])

\* d[k] = v: a present key keeps its place, a new key goes last
DictSet(d, k, v) ==
    IF HasKey(d, k)
    THEN [n \in 1..Len(d) |-> IF d[n].question = k THEN [question |-> k, answer |-> v] ELSE d[n]]
    ELSE Append(d, [question |-> k, answer |-> v])

\* the loop of __init__ over knowledge_list[n..]; a missing "question" or
\* "answer" reads as the empty value, as item.get(..., "") gives
RECURSIVE BuildDict(_, _, _)
BuildDict(d, list, n) ==
    IF n > Len(list) THEN d
    ELSE LET question == Lower(list[n].question)
             ans == list[n].answer
         IN  IF question # <<>> /\ ans # ""
             THEN BuildDict(DictSet(d, question, ans), list, n + 1)
             ELSE BuildDict(d, list, n + 1)

RetrievalSystemInit(list) == BuildDict(<<>>, list, 1)

\* (score, x) < (score', x'): tuple comparison, score first and then the str
PairLess(p, q) == ScoreGT(q[1], p[1]) \/ (ScoreEQ(p[1], q[1]) /\ StrLess(p[2], q[2]))

RemoveAt(seq, m) == [n \in 1..(Len(seq) - 1) |-> IF n < m THEN seq[n] ELSE seq[n + 1]]

\* heapq.nlargest(n, result) == sorted(result, reverse=True)[:n]
RECURSIVE nlargest(_, _)
nlargest(n, result) ==
    IF n = 0 \/ result = <<>> THEN <<>>
    ELSE LET m == CHOOSE i \in 1..Len(result) :
                      /\ \A j \in 1..Len(result) : ~PairLess(result[i], result[j])
                      /\ \A j \in 1..(i - 1) : PairLess(result[j], result[i])
         IN  <<result[m]>> \o nlargest(n - 1, RemoveAt(result, m))

\* the loop of get_close_matches over possibilities[i..]
RECURSIVE CloseFrom(_, _, _, _)
CloseFrom(word, possibilities, c, i) ==
    IF i > Len(possibilities) THEN <<>>
    ELSE LET x == possibilities[i]
         IN  (IF /\ ScoreGE(real_quick_ratio(x, word), c)
                 /\ ScoreGE(quick_ratio(x, word), c)
                 /\ ScoreGE(ratio(x, word), c)
              THEN <<<<ratio(x, word), x>>>>
              ELSE <<>>) \o CloseFrom(word, possibilities, c, i + 1)

\* difflib.get_close_matches(word, possibilities, n, cutoff), n > 0
get_close_matches(word, possibilities, n, c) ==
    LET result == nlargest(n, CloseFrom(word, possibilities, c, 1))
    IN  [i \in 1..Len(result) |-> result[i][2]]

\* retrieve, were n=top_k left out of the call (n is then 3)
retrieve_default_n(q, top_k) ==
    LET keys == [n \in 1..Len(knowledge_dict) |-> knowledge_dict[n].question]
        matches == get_close_matches(Lower(q), keys, DefaultTopK, cutoff)
    IN  [n \in 1..Len(matches) |->
            [question |-> matches[n], answer |-> DictGet(knowledge_dict, matches[n])]]

\* the n best by score alone, the earlier of two equal scores first
RECURSIVE StableLargest(_, _)
StableLargest(n, result) ==
    IF n = 0 \/ result = <<>> THEN <<>>
    ELSE LET m == CHOOSE i \in 1..Len(result) :
                      /\ \A j \in 1..Len(result) : ScoreGE(result[i][1], result[j][1])
                      /\ \A j \in 1..(i - 1) : ScoreGT(result[i][1], result[j][1])
         IN  <<result[m]>> \o StableLargest(n - 1, RemoveAt(result, m))

\* retrieve, were the keys ranked by a stable sort on the score
retrieve_stable(q, top_k) ==
    LET keys == [n \in 1..Len(knowledge_dict) |-> knowledge_dict[n].question]
        best == StableLargest(top_k, CloseFrom(Lower(q), keys, cutoff, 1))
    IN  [n \in 1..Len(best) |->
            [question |-> best[n][2], answer |-> DictGet(knowledge_dict, best[n][2])]]

retrieve(q, top_k) ==
    LET keys == [n \in 1..Len(knowledge_dict) |-> knowledge_dict[n].question]
        matches == get_close_matches(Lower(q), keys, top_k, cutoff)
    IN  [n \in 1..Len(matches) |->
            [question |-> matches[n], answer |-> DictGet(knowledge_dict, matches[n])]]

\* src/retrieval_system.py: one pass over the loaded list, keeping the first
\* best answer; <<best_score, best_answer>> after knowledge[n..]
RECURSIVE LegacyBest(_, _, _, _)
LegacyBest(q, knowledge, n, best) ==
    IF n > Len(knowledge) THEN best
    ELSE LET score == ratio(Lower(q), Lower(knowledge[n].question))
         IN  LegacyBest(q, knowledge, n + 1,
                        IF ScoreGT(score, best[1]) THEN <<score, knowledge[n].answer>> ELSE best)

LegacyRetrieve(q) ==
    LET best == LegacyBest(q, knowledge_list, 1, <<<<0, 1>>, None>>)
    IN  IF ScoreGT(best[1], <<1, 2>>) THEN best[2] ELSE None

\* ------------------------------------------------------ LLMHandler.query
\* The language model samples its reply (do_sample=True): any of these.
LLMResponses == {"reply one", "reply two"}

\* -------------------------------------------- BaristaBuddy.process_query
Refusal == "Sorry, I can only help with coffee-related questions."

Sessions == DOMAIN pc
Terminal == {"Rejected", "Retrieved", "Fallback"}
NoCall == [op |-> "none", arg |-> <<>>, top_k |-> 0, result |-> <<>>]

\* a session is between calls: it never called, or its call has returned
Returned(s) == pc[s] = "Idle" \/ (pc[s] \in Terminal /\ answer[s] # None)

\* the frame of a fresh process_query call with argument text
Call(s, text) ==
    /\ Returned(s)
    /\ text \in inputs[s]
    /\ inputs' = [inputs EXCEPT ![s] = @ \ {text}]
    /\ pc' = [pc EXCEPT ![s] = "Start"]
    /\ query' = [query EXCEPT ![s] = text]
    /\ results' = [results EXCEPT ![s] = <<>>]
    /\ answer' = [answer EXCEPT ![s] = None]
    /\ trace' = [trace EXCEPT ![s] = <<"Start">>]
    /\ retrieveLog' = [retrieveLog EXCEPT ![s] = <<>>]
    /\ llmLog' = [llmLog EXCEPT ![s] = <<>>]
    /\ call' = [call EXCEPT ![s] = [NoCall EXCEPT !.op = "process_query", !.arg = text]]
    /\ UNCHANGED data

\* query = self.fuzzy_matcher.correct_text(query)
Normalize(s) ==
    /\ pc[s] = "Start"
    /\ query' = [query EXCEPT ![s] = correct_text(query[s])]
    /\ pc' = [pc EXCEPT ![s] = "Normalized"]
    /\ trace' = [trace EXCEPT ![s] = Append(@, "Normalized")]
    /\ UNCHANGED <<data, session, inputs, results, answer, retrieveLog, llmLog, call>>

\* Filter, were a knowledge-base hit allowed to admit the query
FilterByScore(s) ==
    /\ pc[s] = "Normalized"
    /\ IF is_coffee_related(query[s]) \/ retrieve(query[s], DefaultTopK) # <<>>
       THEN /\ pc' = [pc EXCEPT ![s] = "Admitted"]
            /\ trace' = [trace EXCEPT ![s] = Append(@, "Admitted")]
            /\ UNCHANGED answer
       ELSE /\ pc' = [pc EXCEPT ![s] = "Rejected"]
            /\ trace' = [trace EXCEPT ![s] = Append(@, "Rejected")]
            /\ answer' = [answer EXCEPT ![s] = Refusal]
    /\ UNCHANGED <<data, session, inputs, query, results, retrieveLog, llmLog, call>>

\* if not self.topic_filter.is_coffee_related(query): return <refusal>
Filter(s) ==
    /\ pc[s] = "Normalized"
    /\ IF is_coffee_related(query[s])
       THEN /\ pc' = [pc EXCEPT ![s] = "Admitted"]
            /\ trace' = [trace EXCEPT ![s] = Append(@, "Admitted")]
            /\ UNCHANGED answer
       ELSE /\ pc' = [pc EXCEPT ![s] = "Rejected"]
            /\ trace' = [trace EXCEPT ![s] = Append(@, "Rejected")]
            /\ answer' = [answer EXCEPT ![s] = Refusal]
    /\ UNCHANGED <<data, session, inputs, query, results, retrieveLog, llmLog, call>>

\* Retrieve, were the text as first passed handed to the language model
RetrievePassingRaw(s) ==
    /\ pc[s] = "Admitted"
    /\ LET r == retrieve(query[s], DefaultTopK)
       IN  /\ results' = [results EXCEPT ![s] = r]
           /\ retrieveLog' = [retrieveLog EXCEPT ![s] = Append(@, query[s])]
           /\ IF r # <<>>
              THEN /\ pc' = [pc EXCEPT ![s] = "Retrieved"]
                   /\ trace' = [trace EXCEPT ![s] = Append(@, "Retrieved")]
                   /\ answer' = [answer EXCEPT ![s] = r[1].answer]
                   /\ UNCHANGED llmLog
              ELSE /\ pc' = [pc EXCEPT ![s] = "Fallback"]
                   /\ trace' = [trace EXCEPT ![s] = Append(@, "Fallback")]
                   /\ llmLog' = [llmLog EXCEPT ![s] = Append(@, [text |-> call[s].arg, response |-> None])]
                   /\ UNCHANGED answer
    /\ UNCHANGED <<data, session, inputs, query, call>>

\* Retrieve, were the entries it returns taken out of the mapping
RetrieveConsuming(s) ==
    /\ pc[s] = "Admitted"
    /\ LET r == retrieve(query[s], DefaultTopK)
       IN  /\ results' = [results EXCEPT ![s] = r]
           /\ retrieveLog' = [retrieveLog EXCEPT ![s] = Append(@, query[s])]
           /\ knowledge_dict' = SelectSeq(knowledge_dict,
                                          LAMBDA e : \A n \in 1..Len(r) : r[n].question # e.question)
           /\ IF r # <<>>
              THEN /\ pc' = [pc EXCEPT ![s] = "Retrieved"]
                   /\ trace' = [trace EXCEPT ![s] = Append(@, "Retrieved")]
                   /\ answer' = [answer EXCEPT ![s] = r[1].answer]
                   /\ UNCHANGED llmLog
              ELSE /\ pc' = [pc EXCEPT ![s] = "Fallback"]
                   /\ trace' = [trace EXCEPT ![s] = Append(@, "Fallback")]
                   /\ llmLog' = [llmLog EXCEPT ![s] = Append(@, [text |-> query[s], response |-> None])]
                   /\ UNCHANGED answer
    /\ UNCHANGED <<pronunciation_dict, keywords, knowledge_list, session, inputs, query, call>>

\* Retrieve, were the last result returned instead of the first
RetrieveLast(s) ==
    /\ pc[s] = "Admitted"
    /\ LET r == retrieve(query[s], DefaultTopK)
       IN  /\ results' = [results EXCEPT ![s] = r]
           /\ retrieveLog' = [retrieveLog EXCEPT ![s] = Append(@, query[s])]
           /\ IF r # <<>>
              THEN /\ pc' = [pc EXCEPT ![s] = "Retrieved"]
                   /\ trace' = [trace EXCEPT ![s] = Append(@, "Retrieved")]
                   /\ answer' = [answer EXCEPT ![s] = r[Len(r)].answer]
                   /\ UNCHANGED llmLog
              ELSE /\ pc' = [pc EXCEPT ![s] = "Fallback"]
                   /\ trace' = [trace EXCEPT ![s] = Append(@, "Fallback")]
                   /\ llmLog' = [llmLog EXCEPT ![s] = Append(@, [text |-> query[s], response |-> None])]
                   /\ UNCHANGED answer
    /\ UNCHANGED <<data, session, inputs, query, call>>

\* results = self.retrieval.retrieve(query); if results: return
\* results[0]["answer"]; otherwise self.llm.query(query) is entered
Retrieve(s) ==
    /\ pc[s] = "Admitted"
    /\ LET r == retrieve(query[s], DefaultTopK)
       IN  /\ results' = [results EXCEPT ![s] = r]
           /\ retrieveLog' = [retrieveLog EXCEPT ![s] = Append(@, query[s])]
           /\ IF r # <<>>
              THEN /\ pc' = [pc EXCEPT ![s] = "Retrieved"]
                   /\ trace' = [trace EXCEPT ![s] = Append(@, "Retrieved")]
                   /\ answer' = [answer EXCEPT ![s] = r[1].answer]
                   /\ UNCHANGED llmLog
              ELSE /\ pc' = [pc EXCEPT ![s] = "Fallback"]
                   /\ trace' = [trace EXCEPT ![s] = Append(@, "Fallback")]
                   /\ llmLog' = [llmLog EXCEPT ![s] = Append(@, [text |-> query[s], response |-> None])]
                   /\ UNCHANGED answer
    /\ UNCHANGED <<data, session, inputs, query, call>>

\* return self.llm.query(query): the model's reply comes back and is returned
LLMReturn(s, response) ==
    /\ pc[s] = "Fallback"
    /\ answer[s] = None
    /\ llmLog' = [llmLog EXCEPT ![s][Len(llmLog[s])].response = response]
    /\ answer' = [answer EXCEPT ![s] = response]
    /\ UNCHANGED <<data, session, inputs, pc, query, results, trace, retrieveLog, call>>

\* ------------------------------------------- the components called directly
Direct(s, op, text, k, result) ==
    /\ Returned(s)
    /\ text \in inputs[s]
    /\ inputs' = [inputs EXCEPT ![s] = @ \ {text}]
    /\ pc' = [pc EXCEPT ![s] = "Idle"]
    /\ query' = [query EXCEPT ![s] = <<>>]
    /\ results' = [results EXCEPT ![s] = <<>>]
    /\ answer' = [answer EXCEPT ![s] = None]
    /\ trace' = [trace EXCEPT ![s] = <<>>]
    /\ retrieveLog' = [retrieveLog EXCEPT ![s] = <<>>]
    /\ llmLog' = [llmLog EXCEPT ![s] = <<>>]
    /\ call' = [call EXCEPT ![s] = [op |-> op, arg |-> text, top_k |-> k, result |-> result]]
    /\ UNCHANGED <<data, session>>

CorrectTextCall(s, text) == Direct(s, "correct_text", text, 0, correct_text(text))

IsCoffeeRelatedCall(s, text) == Direct(s, "is_coffee_related", text, 0, is_coffee_related(text))

RetrieveCall(s, text, top_k) == Direct(s, "retrieve", text, top_k, retrieve(text, top_k))

LegacyRetrieveCall(s, text) == Direct(s, "legacy_retrieve", text, 0, LegacyRetrieve(text))

\* ------------------------------------------------------ BaristaBuddy.run
Hello == "Hello! I'm Barista Buddy. How can I help you?"
DidNotCatch == "I didn't catch that. Please say it again."
Goodbye == "Goodbye! Happy brewing!"
Exiting == "Exiting Barista Buddy. Goodbye!"

ExitWords == {<<"e", "x", "i", "t">>, <<"q", "u", "i", "t">>,
              <<"g", "o", "o", "d", "b", "y", "e">>}

\* str.strip(): without its leading and trailing whitespace
RECURSIVE LStrip(_)
LStrip(s) == IF s # <<>> /\ s[1] = Space THEN LStrip(Tail(s)) ELSE s

RECURSIVE RStrip(_)
RStrip(s) == IF s # <<>> /\ s[Len(s)] = Space THEN RStrip(SubSeq(s, 1, Len(s) - 1)) ELSE s

Strip(s) == RStrip(LStrip(s))

\* what recognize_google may make of the audio
Recognized == {<<"E", "x", "i", "t">>, <<"q", "u", "i", "t">>,
               <<"g", "o", "o", "d", "b", "y", "e">>,
               <<"e", "x", "i", "t", Space>>, <<Space>>,
               <<"a", "b">>, <<"b", "a">>, <<"A", "a">>}

\* STTHandler.listen: the recognized text lower-cased, or "" on a timeout,
\* on unintelligible audio and on a failed request
Heard == {<<>>} \cup {Lower(r) : r \in Recognized}

Listened(text) == [kind |-> "listen", query |-> text, text |-> ""]
Called(text) == [kind |-> "process_query", query |-> text, text |-> ""]
Spoke(text) == [kind |-> "speak", query |-> <<>>, text |-> text]

Listens == Cardinality({n \in 1..Len(events) : events[n].kind = "listen"})

\* self.tts.speak("Hello! ..."), then the loop is entered
RunStart(s) ==
    /\ run_pc = "Idle"
    /\ Returned(s)
    /\ events' = Append(events, Spoke(Hello))
    /\ run_pc' = "Listening"
    /\ UNCHANGED <<data, inputs, locals, call, run_query>>

\* query = self.stt.listen(timeout=5, phrase_time_limit=4)
Listen(s, text) ==
    /\ run_pc = "Listening"
    /\ Listens < MaxTurns
    /\ run_query' = text
    /\ inputs' = [inputs EXCEPT ![s] = {text}]
    /\ events' = Append(events, Listened(text))
    /\ run_pc' = "Heard"
    /\ UNCHANGED <<data, locals, call>>

\* if not query.strip(): speak("I didn't catch that. ..."); continue
Reprompt(s) ==
    /\ run_pc = "Heard"
    /\ Strip(run_query) = <<>>
    /\ events' = Append(events, Spoke(DidNotCatch))
    /\ run_pc' = "Listening"
    /\ UNCHANGED <<data, inputs, locals, call, run_query>>

\* Farewell, were the loop not left after the farewell
FarewellWithoutBreak(s) ==
    /\ run_pc = "Heard"
    /\ Strip(run_query) # <<>>
    /\ Lower(run_query) \in ExitWords
    /\ events' = Append(events, Spoke(Goodbye))
    /\ run_pc' = "Listening"
    /\ UNCHANGED <<data, inputs, locals, call, run_query>>

\* if query.lower() in ["exit", "quit", "goodbye"]: speak("Goodbye! ..."); break
Farewell(s) ==
    /\ run_pc = "Heard"
    /\ Strip(run_query) # <<>>
    /\ Lower(run_query) \in ExitWords
    /\ events' = Append(events, Spoke(Goodbye))
    /\ run_pc' = "Ended"
    /\ UNCHANGED <<data, inputs, locals, call, run_query>>

\* answer = self.process_query(query): the call is entered
Process(s) ==
    /\ run_pc = "Heard"
    /\ Strip(run_query) # <<>>
    /\ Lower(run_query) \notin ExitWords
    /\ Call(s, run_query)
    /\ events' = Append(events, Called(run_query))
    /\ run_pc' = "Processing"
    /\ UNCHANGED run_query

\* the call has returned: self.tts.speak(answer), and round the loop
SpeakAnswer(s) ==
    /\ run_pc = "Processing"
    /\ pc[s] \in Terminal
    /\ answer[s] # None
    /\ events' = Append(events, Spoke(answer[s]))
    /\ run_pc' = "Listening"
    /\ UNCHANGED <<data, inputs, locals, call, run_query>>

\* except KeyboardInterrupt: speak("Exiting Barista Buddy. Goodbye!"); break.
\* The interrupt arrives anywhere in the body of the try; a process_query
\* call it arrives in is abandoned.
Interrupt(s) ==
    /\ run_pc \in {"Listening", "Heard", "Processing"}
    /\ events' = Append(events, Spoke(Exiting))
    /\ run_pc' = "Ended"
    /\ IF Returned(s)
       THEN UNCHANGED <<pc, query, results, answer, trace>>
       ELSE /\ pc' = [pc EXCEPT ![s] = "Idle"]
            /\ query' = [query EXCEPT ![s] = <<>>]
            /\ results' = [results EXCEPT ![s] = <<>>]
            /\ answer' = [answer EXCEPT ![s] = None]
            /\ trace' = [trace EXCEPT ![s] = <<>>]
    /\ UNCHANGED <<data, inputs, retrieveLog, llmLog, call, run_query>>

\* ------------------------------------------------------- loaded data
Texts == StrsUpTo(Chars, MaxLen)
TopKs == 1..MaxTopK

\* every list of at most n elements of S
ListsUpTo(S, n) == UNION {[1..k -> S] : k \in 0..n}

Variants(v) == [kind |-> "list", items |-> v]
Single(c) == [kind |-> "str", items |-> <<c>>]
Other == [kind |-> "other", items |-> <<>>]

\* pronunciation_dict.json: canonical term -> its variants (as
\* src/fuzzy_matcher.py reads it), wrong -> correct, and a value that is
\* neither a list nor a str
PronEntries == {
    <<<<"a", "b">>, Variants(<<<<"a", "a">>, <<"b", "b">>>>)>>,
    <<<<"b", "a">>, Variants(<<<<"b", "b">>>>)>>,
    <<<<"A", "a">>, Single(<<"a", "b">>)>>,
    <<<<"b", "b">>, Single(<<"b", "A">>)>>,
    <<<<"b">>, Other>> }

\* a JSON object holds each key once
PronTables == {d \in ListsUpTo(PronEntries, MaxPron) :
                  \A m, n \in 1..Len(d) : m # n => d[m][1] # d[n][1]}

\* coffee_keywords.txt as loaded: stripped, lower-cased, no blank line;
\* src/topic_filter.py keeps the case of a line
KeywordPool == {<<"a", "b">>, <<"b", "b">>, <<"A", "b">>}
KeywordLists == ListsUpTo(KeywordPool, MaxKeywords)

\* coffee_knowledge.json: a list of {question, answer}
Item(q, a) == [question |-> q, answer |-> a]
KnowledgePool == {
    Item(<<"a", "b">>, "answer ab"),
    Item(<<"A", "b">>, "answer Ab"),
    Item(<<"b", "a">>, "answer ba"),
    Item(<<"b", "b", "b">>, "answer bbb"),
    Item(<<"a", "b">>, ""),
    Item(<<>>, "answer") }
KnowledgeLists == ListsUpTo(KnowledgePool, MaxEntries)

\* a session of a run passes one text, to one of the operations
OneText == {{text} : text \in Texts}

\* the state after BaristaBuddy.__init__ for tables P, keyword lists K and
\* knowledge lists L, with the sessions S idle, each to pass a set of I
Loaded(P, K, L, I, S) ==
    /\ pronunciation_dict \in P
    /\ keywords \in K
    /\ knowledge_list \in L
    /\ knowledge_dict = RetrievalSystemInit(knowledge_list)
    /\ inputs \in [S -> I]
    /\ pc = [s \in S |-> "Idle"]
    /\ query = [s \in S |-> <<>>]
    /\ results = [s \in S |-> <<>>]
    /\ answer = [s \in S |-> None]
    /\ trace = [s \in S |-> <<>>]
    /\ retrieveLog = [s \in S |-> <<>>]
    /\ llmLog = [s \in S |-> <<>>]
    /\ call = [s \in S |-> NoCall]
    /\ run_pc = "Idle"
    /\ run_query = <<>>
    /\ events = <<>>

\* ---------------------------------------------------- specifications
\* FuzzyMatcher alone, over every table
InitNormalizer == Loaded(PronTables, {<<>>}, {<<>>}, OneText, {1})
NextNormalizer == \E s \in Sessions : \E text \in inputs[s] : CorrectTextCall(s, text)
SpecNormalizer == InitNormalizer /\ [][NextNormalizer]_vars

\* TopicFilter alone, over every keyword list
InitFilter == Loaded({<<>>}, KeywordLists, {<<>>}, OneText, {1})
NextFilter == \E s \in Sessions : \E text \in inputs[s] : IsCoffeeRelatedCall(s, text)
SpecFilter == InitFilter /\ [][NextFilter]_vars

\* RetrievalSystem alone, over every knowledge list
InitRetrieval == Loaded({<<>>}, {<<>>}, KnowledgeLists, OneText, {1})
NextRetrieval ==
    \/ \E s \in Sessions : \E text \in inputs[s], top_k \in TopKs : RetrieveCall(s, text, top_k)
    \/ \E s \in Sessions : \E text \in inputs[s] : LegacyRetrieveCall(s, text)
SpecRetrieval == InitRetrieval /\ [][NextRetrieval]_vars

\* the assistant: one session, process_query and the components
PipelineProns == {<<>>,
                  <<<<<<"a", "a">>, Single(<<"a", "b">>)>>>>,
                  <<<<<<"a", "b">>, Variants(<<<<"b", "b">>>>)>>>>}
PipelineKeywords == {<<>>, <<<<"a", "b">>>>, <<<<"b", "b">>, <<"b", "a">>>>}
PipelineKnowledge == {<<>>,
                      <<Item(<<"b", "a">>, "answer ba"), Item(<<"a", "b">>, "answer ab")>>,
                      <<Item(<<"b", "b", "b">>, "answer bbb"), Item(<<"A", "b">>, "answer Ab")>>}

Init == Loaded(PipelineProns, PipelineKeywords, PipelineKnowledge, OneText, {1})

Next ==
    \/ \E s \in Sessions : \E text \in inputs[s] : Call(s, text) /\ UNCHANGED session
    \/ \E s \in Sessions : Normalize(s)
    \/ \E s \in Sessions : Filter(s)
    \/ \E s \in Sessions : Retrieve(s)
    \/ \E s \in Sessions, response \in LLMResponses : LLMReturn(s, response)
    \/ \E s \in Sessions : \E text \in inputs[s] : CorrectTextCall(s, text)
    \/ \E s \in Sessions : \E text \in inputs[s] : IsCoffeeRelatedCall(s, text)
    \/ \E s \in Sessions : \E text \in inputs[s], top_k \in TopKs : RetrieveCall(s, text, top_k)
    \/ \E s \in Sessions : \E text \in inputs[s] : LegacyRetrieveCall(s, text)

Spec == Init /\ [][Next]_vars

\* two sessions share the loaded data and interleave, each passing both texts
ConcurrentInputs == {<<"a", "b">>, <<"A", "a">>}
ConcurrentProns == {<<>>, <<<<<<"a", "a">>, Single(<<"a", "b">>)>>>>}
InitConcurrent ==
    Loaded(ConcurrentProns, {<<<<"a", "b">>>>}, PipelineKnowledge, {ConcurrentInputs}, {1, 2})
SpecConcurrent == InitConcurrent /\ [][Next]_vars

\* a voice session: run listens, calls process_query and speaks
SessionProns == {<<<<<<"a", "a">>, Single(<<"a", "b">>)>>>>}
InitSession ==
    Loaded(SessionProns, {<<<<"a", "b">>>>}, PipelineKnowledge, {{}}, {1})

NextSession ==
    \/ \E s \in Sessions : RunStart(s)
    \/ \E s \in Sessions, text \in Heard : Listen(s, text)
    \/ \E s \in Sessions : Reprompt(s)
    \/ \E s \in Sessions : Farewell(s)
    \/ \E s \in Sessions : Process(s)
    \/ \E s \in Sessions : Normalize(s)
    \/ \E s \in Sessions : Filter(s)
    \/ \E s \in Sessions : Retrieve(s)
    \/ \E s \in Sessions, response \in LLMResponses : LLMReturn(s, response)
    \/ \E s \in Sessions : SpeakAnswer(s)
    \/ \E s \in Sessions : Interrupt(s)

SpecSession == InitSession /\ [][NextSession]_vars

\* ================================================================ claims
\* what the claims speak of, stated apart from the code's own search

\* kw occurs in text as a substring
Occurs(kw, text) == \E i \in 1..(Len(text) - Len(kw) + 1) : SubSeq(text, i, i + Len(kw) - 1) = kw
HasKeyword(text) == \E n \in 1..Len(keywords) : Occurs(keywords[n], text)

\* the text a process_query call was given
Raw(s) == call[s].arg
Done(s) == pc[s] \in Terminal /\ answer[s] # None
PastFilter(s) == pc[s] \in {"Admitted", "Rejected", "Retrieved", "Fallback"}

\* the keys of the knowledge mapping and their similarity to a query
Keys == {knowledge_dict[n].question : n \in 1..Len(knowledge_dict)}
Score(key, q) == ratio(key, Lower(q))
Clears(key, q) == ScoreGE(Score(key, q), cutoff)

\* C1: a query whose normalized text contains no keyword is refused, and
\* neither retrieve nor the language model is invoked for it, however
\* similar it is to a knowledge-base question; nothing is retrieved or
\* delegated before admission.
C1_AdmissionNotBypassed ==
    \A s \in Sessions :
        /\ pc[s] \in {"Start", "Normalized", "Rejected"} =>
               retrieveLog[s] = <<>> /\ llmLog[s] = <<>>
        /\ PastFilter(s) /\ ~HasKeyword(query[s]) =>
               /\ pc[s] = "Rejected"
               /\ answer[s] = Refusal
               /\ retrieveLog[s] = <<>>
               /\ llmLog[s] = <<>>

\* a refused query that equals a knowledge-base question up to case
C1_Witness ==
    \E s \in Sessions :
        /\ pc[s] = "Rejected"
        /\ answer[s] = Refusal
        /\ ~HasKeyword(query[s])
        /\ \E key \in Keys : ScoreEQ(Score(key, query[s]), <<1, 1>>)

\* C2: the language model is invoked once if the normalized query is
\* admitted and retrieval finds nothing, and not at all otherwise; it is
\* given the normalized query and its reply is the answer returned.
C2_FallbackExactlyOnce ==
    \A s \in Sessions :
        /\ Len(llmLog[s]) <= 1
        /\ (llmLog[s] # <<>>) <=> (pc[s] = "Fallback")
        /\ Done(s) =>
               LET normalized == correct_text(Raw(s))
                   miss == HasKeyword(normalized)
                           /\ \A key \in Keys : ~Clears(key, normalized)
               IN  /\ Len(llmLog[s]) = (IF miss THEN 1 ELSE 0)
                   /\ miss => /\ llmLog[s][1].text = normalized
                              /\ llmLog[s][1].response = answer[s]
                              /\ answer[s] \in LLMResponses

\* a finished call that fell back, on a text that normalization changed
C2_Witness ==
    \E s \in Sessions :
        /\ Done(s)
        /\ pc[s] = "Fallback"
        /\ Len(llmLog[s]) = 1
        /\ llmLog[s][1].text # Raw(s)
        /\ Keys # {}

\* C3: a call runs Start, Normalized, then Rejected or Admitted, then (if
\* admitted) Retrieved or Fallback; no stage twice; it returns only in
\* Rejected, Retrieved or Fallback; and in Retrieved the answer is that of
\* the first result, which no other entry outscores.
Paths == {<<"Start", "Normalized", "Rejected">>,
          <<"Start", "Normalized", "Admitted", "Retrieved">>,
          <<"Start", "Normalized", "Admitted", "Fallback">>}
IsPrefix(t, path) == Len(t) <= Len(path) /\ \A n \in 1..Len(t) : t[n] = path[n]

C3_StateMachine ==
    \A s \in Sessions :
        /\ \E path \in Paths : IsPrefix(trace[s], path)
        /\ pc[s] = (IF trace[s] = <<>> THEN "Idle" ELSE trace[s][Len(trace[s])])
        /\ answer[s] # None => pc[s] \in Terminal
        /\ pc[s] \in {"Rejected", "Retrieved"} => answer[s] # None
        /\ pc[s] \notin {"Idle", "Start"} => query[s] = correct_text(Raw(s))
        /\ pc[s] = "Retrieved" =>
               /\ results[s] # <<>>
               /\ answer[s] = results[s][1].answer
               /\ results[s][1].question \in Keys
               /\ answer[s] = DictGet(knowledge_dict, results[s][1].question)
               /\ \A key \in Keys :
                      ScoreGE(Score(results[s][1].question, query[s]), Score(key, query[s]))

\* a call that returned from Retrieved with more than one result whose answers differ
C3_Witness ==
    \E s \in Sessions :
        /\ pc[s] = "Retrieved"
        /\ Len(results[s]) >= 2
        /\ results[s][1].answer # results[s][Len(results[s])].answer
        /\ answer[s] = results[s][1].answer

\* C4: is_coffee_related(text) is true exactly when some keyword occurs as
\* a substring of the lower-cased text.
C4_RelatedIffKeywordSubstring ==
    \A s \in Sessions :
        call[s].op = "is_coffee_related" =>
            (call[s].result <=> HasKeyword(Lower(call[s].arg)))

\* a text accepted only because it is lower-cased first
C4_Witness ==
    \E s \in Sessions :
        /\ call[s].op = "is_coffee_related"
        /\ call[s].result = TRUE
        /\ ~HasKeyword(call[s].arg)

\* C5: retrieve(query, top_k) returns entries of the mapping that score at
\* or above the cutoff, in non-increasing score order, at most top_k of
\* them and as many as there are up to top_k, none outscored by an entry
\* left out; it is empty exactly when no entry clears the cutoff.
C5_RetrieveContract ==
    \A s \in Sessions :
        call[s].op = "retrieve" =>
            LET r == call[s].result
                q == call[s].arg
                Got == {r[n].question : n \in 1..Len(r)}
                Clear == {key \in Keys : Clears(key, q)}
            IN  /\ Len(r) <= call[s].top_k
                /\ Got \subseteq Clear
                /\ Cardinality(Got) = Len(r)
                /\ Len(r) = Min(call[s].top_k, Cardinality(Clear))
                /\ \A n \in 1..Len(r) : r[n].answer = DictGet(knowledge_dict, r[n].question)
                /\ \A m, n \in 1..Len(r) :
                       m < n => ScoreGE(Score(r[m].question, q), Score(r[n].question, q))
                /\ \A key \in Clear \ Got, n \in 1..Len(r) :
                       ScoreGE(Score(r[n].question, q), Score(key, q))
                /\ (r = <<>>) <=> (Clear = {})

\* a retrieve that was cut to top_k and kept an entry scoring exactly the cutoff
C5_Witness ==
    \E s \in Sessions :
        /\ call[s].op = "retrieve"
        /\ Len(call[s].result) = call[s].top_k
        /\ Cardinality({key \in Keys : Clears(key, call[s].arg)}) > call[s].top_k
        /\ \E n \in 1..Len(call[s].result) :
               ScoreEQ(Score(call[s].result[n].question, call[s].arg), cutoff)

\* the place of a key in the knowledge mapping, in insertion order
Position(key) == CHOOSE n \in 1..Len(knowledge_dict) : knowledge_dict[n].question = key

\* the loaded entries src/retrieval_system.py scores, and the first of the best
LegacyScore(n, q) == ratio(Lower(q), Lower(knowledge_list[n].question))
LegacyFirstBest(q) ==
    CHOOSE n \in 1..Len(knowledge_list) :
        /\ \A m \in 1..Len(knowledge_list) : ScoreGE(LegacyScore(n, q), LegacyScore(m, q))
        /\ \A m \in 1..(n - 1) : ScoreGT(LegacyScore(n, q), LegacyScore(m, q))

\* C6 as stated: entries of exactly equal score are returned, and survive
\* the cut to top_k, in knowledge-base order, the earliest first.
C6_TiesInKnowledgeBaseOrder ==
    \A s \in Sessions :
        call[s].op = "retrieve" =>
            LET r == call[s].result
                q == call[s].arg
                Got == {r[n].question : n \in 1..Len(r)}
                Clear == {key \in Keys : Clears(key, q)}
            IN  /\ \A m, n \in 1..Len(r) :
                       m < n /\ ScoreEQ(Score(r[m].question, q), Score(r[n].question, q))
                           => Position(r[m].question) < Position(r[n].question)
                /\ \A key \in Clear \ Got, n \in 1..Len(r) :
                       ScoreEQ(Score(key, q), Score(r[n].question, q))
                           => Position(r[n].question) < Position(key)

\* C6 as amended: entries of exactly equal score are returned, and survive
\* the cut to top_k, in descending order of the lower-cased question as a
\* str, the greater first; the single-answer retrieve of
\* src/retrieval_system.py gives the answer of the earliest best entry.
C6_TiesInDescendingStringOrder ==
    \A s \in Sessions :
        /\ call[s].op = "retrieve" =>
               LET r == call[s].result
                   q == call[s].arg
                   Got == {r[n].question : n \in 1..Len(r)}
                   Clear == {key \in Keys : Clears(key, q)}
               IN  /\ \A m, n \in 1..Len(r) :
                          m < n /\ ScoreEQ(Score(r[m].question, q), Score(r[n].question, q))
                              => StrLess(r[n].question, r[m].question)
                   /\ \A key \in Clear \ Got, n \in 1..Len(r) :
                          ScoreEQ(Score(key, q), Score(r[n].question, q))
                              => StrLess(key, r[n].question)
        /\ call[s].op = "legacy_retrieve" /\ call[s].result # None =>
               call[s].result = knowledge_list[LegacyFirstBest(call[s].arg)].answer

\* two entries of equal score returned in the reverse of their knowledge-base order
C6_Witness ==
    \E s \in Sessions :
        /\ call[s].op = "retrieve"
        /\ \E m, n \in 1..Len(call[s].result) :
               /\ m < n
               /\ ScoreEQ(Score(call[s].result[m].question, call[s].arg),
                          Score(call[s].result[n].question, call[s].arg))
               /\ Position(call[s].result[m].question) > Position(call[s].result[n].question)

\* C7: for a table that maps each canonical term to the list of its
\* variants, correct_text of a variant contains the canonical term.
C7_VariantYieldsCanonical ==
    \A s \in Sessions :
        call[s].op = "correct_text" =>
            \A n \in 1..Len(pronunciation_dict) :
                LET canonical == pronunciation_dict[n][1]
                    value == pronunciation_dict[n][2]
                IN  value.kind = "list" =>
                        \A v \in 1..Len(value.items) :
                            call[s].arg = value.items[v] => Occurs(Lower(canonical), call[s].result)

\* the entries __init__ stores: a question and an answer, neither empty
Usable(n) == knowledge_list[n].question # <<>> /\ knowledge_list[n].answer # ""
LastOf(S) == CHOOSE n \in S : \A m \in S : m <= n

\* C8 as stated: the mapping has one key per distinct lower-cased question
\* of the list, with the answer of the last entry that has that question.
C8_LastWriteWins ==
    LET All == 1..Len(knowledge_list)
        Questions == {Lower(knowledge_list[n].question) : n \in All}
    IN  /\ Keys = Questions
        /\ Cardinality(Keys) = Len(knowledge_dict)
        /\ \A k \in Keys :
               DictGet(knowledge_dict, k) =
                   knowledge_list[LastOf({n \in All : Lower(knowledge_list[n].question) = k})].answer

\* C8 as amended: the mapping has one key per distinct lower-cased question
\* among the entries whose question and answer are both non-empty, with
\* the answer of the last such entry that has that question.
C8_LastUsableWriteWins ==
    LET Stored == {n \in 1..Len(knowledge_list) : Usable(n)}
        Questions == {Lower(knowledge_list[n].question) : n \in Stored}
    IN  /\ Keys = Questions
        /\ Cardinality(Keys) = Len(knowledge_dict)
        /\ \A k \in Keys :
               DictGet(knowledge_dict, k) =
                   knowledge_list[LastOf({n \in Stored : Lower(knowledge_list[n].question) = k})].answer

\* two stored entries whose questions differ only in case and whose
\* answers differ, queried after construction
C8_Witness ==
    /\ \E m, n \in 1..Len(knowledge_list) :
           /\ m < n
           /\ Usable(m) /\ Usable(n)
           /\ knowledge_list[m].question # knowledge_list[n].question
           /\ Lower(knowledge_list[m].question) = Lower(knowledge_list[n].question)
           /\ knowledge_list[m].answer # knowledge_list[n].answer
    /\ \E s \in Sessions : call[s].op = "retrieve" /\ call[s].result # <<>>

\* C9: with no keyword, is_coffee_related is false of every text and
\* every process_query call is refused; with no knowledge entry, retrieve
\* returns nothing for every query and top_k (the single-answer retrieve
\* returns None) and an admitted query goes to the language model.
C9_EmptyCollections ==
    \A s \in Sessions :
        /\ keywords = <<>> =>
               /\ call[s].op = "is_coffee_related" => call[s].result = FALSE
               /\ PastFilter(s) => pc[s] = "Rejected" /\ answer[s] = Refusal
        /\ knowledge_list = <<>> =>
               /\ call[s].op = "retrieve" => call[s].result = <<>>
               /\ call[s].op = "legacy_retrieve" => call[s].result = None
               /\ pc[s] \in {"Retrieved", "Fallback"} =>
                      /\ pc[s] = "Fallback"
                      /\ results[s] = <<>>
                      /\ Len(llmLog[s]) = 1

\* no keyword and no knowledge entry: a call was refused
C9_Witness ==
    \E s \in Sessions :
        /\ keywords = <<>>
        /\ knowledge_list = <<>>
        /\ pc[s] = "Rejected"
        /\ answer[s] = Refusal
        /\ Raw(s) # <<>>

\* what a finished call returned
Result(s) == IF call[s].op = "process_query" THEN answer[s] ELSE call[s].result

\* what a finished call gave apart from the reply of the language model:
\* the result of a component, or the stage, normalized query and results
\* of process_query, with its answer unless the language model chose it
Outcome(s) ==
    IF call[s].op = "process_query"
    THEN <<pc[s], query[s], results[s], IF pc[s] = "Fallback" THEN None ELSE answer[s]>>
    ELSE <<call[s].result>>

Finished(s) == call[s].op # "none" /\ (call[s].op = "process_query" => Done(s))

SameCall(s, t) ==
    call[s].op = call[t].op /\ call[s].arg = call[t].arg /\ call[s].top_k = call[t].top_k

ReadOnly == [][UNCHANGED <<pronunciation_dict, keywords, knowledge_list, knowledge_dict>>]_vars

\* C10 as stated: no step of correct_text, is_coffee_related, retrieve or
\* process_query, in any session and any interleaving, changes the
\* pronunciation table, the keywords or the knowledge mapping; and two
\* finished calls of the same operation on the same argument, whatever ran
\* before or between them, returned the same result.
C10_ResultFromArgumentAlone ==
    /\ ReadOnly
    /\ [](\A s, t \in Sessions : Finished(s) /\ Finished(t) /\ SameCall(s, t) => Result(s) = Result(t))

\* C10 as amended: the loaded data is never changed, and two finished
\* calls of the same operation on the same argument gave the same result,
\* except that process_query calls that fell back agree on everything but
\* the reply the language model sampled.
C10_ReadOnlyAfterInit ==
    /\ ReadOnly
    /\ [](\A s, t \in Sessions : Finished(s) /\ Finished(t) /\ SameCall(s, t) =>
              /\ Outcome(s) = Outcome(t)
              /\ pc[s] # "Fallback" => Result(s) = Result(t))

\* two sessions finished the same process_query from the knowledge base,
\* on a text that normalization changed
C10_Witness ==
    /\ \A s \in Sessions : call[s].op = "process_query" /\ pc[s] = "Retrieved"
    /\ \E s, t \in Sessions : s # t /\ SameCall(s, t) /\ call[s].arg # query[s]

\* C11: in the session loop, a blank utterance is answered by the re-prompt
\* and no process_query call; "exit", "quit" or "goodbye" by the farewell,
\* which ends the loop, and no process_query call; every other utterance by
\* exactly one process_query call on it, whose answer is spoken once before
\* the next listen; and nothing is processed or spoken once the loop ended.
Blank(text) == Strip(text) = <<>>
IsExit(text) == text \in ExitWords

\* the listens of the session, and the events of the turn a listen opens
Turns == {n \in 1..Len(events) : events[n].kind = "listen"}
TurnEnd(n) == IF \E m \in Turns : m > n
              THEN (CHOOSE m \in Turns : m > n /\ \A k \in Turns : k > n => m <= k) - 1
              ELSE Len(events)
LastTurn(n) == TurnEnd(n) = Len(events)
Segment(n) == SubSeq(events, n + 1, TurnEnd(n))

\* the turn was cut by a KeyboardInterrupt, and what it did before that
Interrupted(n) == LastTurn(n) /\ Segment(n) # <<>> /\ events[Len(events)] = Spoke(Exiting)
Body(n) == IF Interrupted(n) THEN SubSeq(events, n + 1, Len(events) - 1) ELSE Segment(n)

\* what the loop does with the utterance of turn n, by the claim
Expected(n, s) ==
    LET text == events[n].query
    IN  IF Blank(text) THEN <<Spoke(DidNotCatch)>>
        ELSE IF IsExit(text) THEN <<Spoke(Goodbye)>>
        ELSE <<Called(text),
               IF LastTurn(n) \/ Len(Body(n)) < 2 THEN Spoke(answer[s]) ELSE Spoke(Body(n)[2].text)>>

\* the turn goes as expected as far as it has gone, and has gone all the way
\* once the loop listens again; the loop has ended after a farewell
TurnInOrder(n, s) ==
    /\ IsPrefix(Body(n), Expected(n, s))
    /\ ~LastTurn(n) => Body(n) = Expected(n, s) /\ ~IsExit(events[n].query)
    /\ IsExit(events[n].query) /\ Body(n) = Expected(n, s) =>
           run_pc = "Ended" /\ ~Interrupted(n)
    /\ Body(n) # <<>> /\ Body(n)[Len(Body(n))].kind = "process_query" /\ ~Interrupted(n) =>
           /\ run_pc = "Processing"
           /\ call[s].op = "process_query"
           /\ call[s].arg = events[n].query

\* the session opens with the greeting, and only the loop's call of
\* process_query lets a query be processed
LoopInOrder ==
    /\ (events = <<>>) <=> (run_pc = "Idle")
    /\ events # <<>> => events[1] = Spoke(Hello)
    /\ \A n \in 2..Len(events) : events[n - 1] = Spoke(Hello) =>
           events[n].kind = "listen" \/ events[n] = Spoke(Exiting)
    /\ \A s \in Sessions : run_pc # "Processing" => Returned(s)

OneCallPerUtterance ==
    [][\A s \in Sessions : pc'[s] = "Start" /\ pc[s] # "Start" =>
           /\ run_pc = "Heard"
           /\ events' = Append(events, Called(run_query))]_vars

NothingAfterTheEnd == [][run_pc # "Ended"]_vars

\* C11 as stated: every utterance heard gets its response
C11_EveryUtteranceAnswered ==
    /\ [](LoopInOrder /\ \A s \in Sessions : \A n \in Turns :
              TurnInOrder(n, s) /\ (Interrupted(n) => Body(n) = Expected(n, s)))
    /\ OneCallPerUtterance
    /\ NothingAfterTheEnd

\* C11 as amended: every utterance heard gets its response unless a
\* KeyboardInterrupt cuts the turn short; the interrupt abandons what the
\* turn had left to do, the exit message is spoken and the loop ends.
C11_TurnsUnlessInterrupted ==
    /\ [](LoopInOrder /\ \A s \in Sessions : \A n \in Turns :
              TurnInOrder(n, s) /\ (Interrupted(n) => run_pc = "Ended"))
    /\ OneCallPerUtterance
    /\ NothingAfterTheEnd

\* a session that re-prompted, answered a query and ended on a farewell
C11_Witness ==
    /\ run_pc = "Ended"
    /\ events[Len(events)] = Spoke(Goodbye)
    /\ \E n \in Turns : Blank(events[n].query) /\ Segment(n) = <<Spoke(DidNotCatch)>>
    /\ \E n \in Turns : \E s \in Sessions :
           /\ Len(Segment(n)) = 2
           /\ Segment(n)[1] = Called(events[n].query)
           /\ Segment(n)[2] = Spoke(answer[s])
           /\ answer[s] # Refusal

====
